---- MODULE Spec2Model ----
(***************************************************************************)
(* Upload-and-transform pipeline of the excel-reader repository:           *)
(* POST /api/upload of server/index.js (multer disk storage, fileFilter,   *)
(* size limit, processCSV / processExcel, temp-file cleanup, the error     *)
(* middleware), the older copy of the same server kept at the end of       *)
(* src/components/FileUploader.tsx, and the browser-side validateFile.     *)
(*                                                                         *)
(* File names and extensions are sequences of one-character strings, so    *)
(* that path.extname, toLowerCase and endsWith are computed, not assumed.  *)
(* Messages are sequences of string fragments; concatenation is \o.        *)
(***************************************************************************)
EXTENDS Integers, Sequences, FiniteSets, TLC

\* ------------------------------------------------------------------ bounds

\* Date.now() takes the values 1..MaxClock.
MaxClock == 2
\* Math.round(Math.random() * 1E9) takes the values 0..MaxRand-1.
MaxRand == 2

\* The upload requests the model follows, numbered in their order of
\* arrival; both may be in flight together.
Reqs == {1, 2}
Rands == 0..(MaxRand - 1)

\* The calls of uploadFile the client model follows.
MaxCalls == 3

\* ---------------------------------------------------------------- strings

UpperAlphabet ==
  <<"A","B","C","D","E","F","G","H","I","J","K","L","M",
    "N","O","P","Q","R","S","T","U","V","W","X","Y","Z">>
LowerAlphabet ==
  <<"a","b","c","d","e","f","g","h","i","j","k","l","m",
    "n","o","p","q","r","s","t","u","v","w","x","y","z">>

\* String.prototype.toLowerCase on one character.
LowerChar(c) ==
  IF \E i \in 1..26 : UpperAlphabet[i] = c
  THEN LowerAlphabet[CHOOSE i \in 1..26 : UpperAlphabet[i] = c]
  ELSE c

\* String.prototype.toLowerCase.
ToLowerCase(s) == [i \in 1..Len(s) |-> LowerChar(s[i])]

\* String.prototype.endsWith.
EndsWith(s, suffix) ==
  /\ Len(suffix) <= Len(s)
  /\ SubSeq(s, Len(s) - Len(suffix) + 1, Len(s)) = suffix

\* Array.prototype.includes on a sequence.
Includes(arr, x) == \E i \in 1..Len(arr) : arr[i] = x

\* String.prototype.includes: sub occurs in s as a contiguous run.
StrIncludes(s, sub) ==
  \E i \in 0..(Len(s) - Len(sub)) : SubSeq(s, i + 1, i + Len(sub)) = sub

\* Node's path.extname, as its right-to-left scan: i is the JavaScript
\* (0-based) index; startDot, end are -1 when unset; preDotState is 0, 1 or -1.
RECURSIVE ExtScan(_, _, _)
ExtScan(path, i, st) ==
  IF i < 0 THEN st
  ELSE
    LET code == path[i + 1] IN
    IF code = "/"
    THEN IF ~st.matchedSlash
         THEN [st EXCEPT !.startPart = i + 1]
         ELSE ExtScan(path, i - 1, st)
    ELSE
      LET s1 == IF st.end = -1
                THEN [st EXCEPT !.matchedSlash = FALSE, !.end = i + 1]
                ELSE st
          s2 == IF code = "."
                THEN IF s1.startDot = -1
                     THEN [s1 EXCEPT !.startDot = i]
                     ELSE IF s1.preDotState # 1
                          THEN [s1 EXCEPT !.preDotState = 1]
                          ELSE s1
                ELSE IF s1.startDot # -1
                     THEN [s1 EXCEPT !.preDotState = -1]
                     ELSE s1
      IN ExtScan(path, i - 1, s2)

Extname(path) ==
  LET st == ExtScan(path, Len(path) - 1,
                    [startDot |-> -1, startPart |-> 0, end |-> -1,
                     matchedSlash |-> TRUE, preDotState |-> 0])
  IN IF \/ st.startDot = -1
        \/ st.end = -1
        \/ st.preDotState = 0
        \/ (st.preDotState = 1 /\ st.startDot = st.end - 1
                               /\ st.startDot = st.startPart + 1)
     THEN <<>>
     ELSE SubSeq(path, st.startDot + 1, st.end)

\* String.prototype.toUpperCase on one character, and on a string.
UpperChar(c) ==
  IF \E i \in 1..26 : LowerAlphabet[i] = c
  THEN UpperAlphabet[CHOOSE i \in 1..26 : LowerAlphabet[i] = c]
  ELSE c

ToUpperCase(s) == [i \in 1..Len(s) |-> UpperChar(s[i])]

\* ---------------------------------------------------------------- objects

\* A plain JavaScript object is the sequence of its own properties
\* [k |-> key, v |-> value] in the order they were created; a key is a
\* sequence of characters.

Digits == <<"0", "1", "2", "3", "4", "5", "6", "7", "8", "9">>

IsDigit(c) == \E i \in 1..10 : Digits[i] = c
DigitValue(c) == (CHOOSE i \in 1..10 : Digits[i] = c) - 1

\* a <= b for two strings of digits of the same length.
RECURSIVE DigitsLeq(_, _)
DigitsLeq(a, b) ==
  IF a = <<>> THEN TRUE
  ELSE IF DigitValue(a[1]) # DigitValue(b[1])
  THEN DigitValue(a[1]) < DigitValue(b[1])
  ELSE DigitsLeq(Tail(a), Tail(b))

\* a <= b as numbers, for strings of digits without a leading zero.
NumericLeq(a, b) ==
  Len(a) < Len(b) \/ (Len(a) = Len(b) /\ DigitsLeq(a, b))

\* The largest array index, 2^32 - 2, in digits.
MaxArrayIndex == <<"4", "2", "9", "4", "9", "6", "7", "2", "9", "4">>

\* An integer-like key ("array index"): a canonical numeric string, no
\* leading zero, at most 2^32 - 2.
IsArrayIndex(key) ==
  /\ Len(key) >= 1
  /\ \A i \in 1..Len(key) : IsDigit(key[i])
  /\ (Len(key) > 1 => key[1] # "0")
  /\ NumericLeq(key, MaxArrayIndex)

HasKey(obj, key) == \E i \in 1..Len(obj) : obj[i].k = key

\* obj[key]
ObjGet(obj, key) == obj[CHOOSE i \in 1..Len(obj) : obj[i].k = key].v

\* The key of the prototype accessor every plain object inherits.
ProtoKey == <<"_", "_", "p", "r", "o", "t", "o", "_", "_">>

\* obj[key] = value: an existing property keeps its place. On an object
\* made by {} the key __proto__ names the inherited accessor: the assignment
\* sets the prototype (or is ignored, when the value is no object) and
\* creates no property.
ObjSet(obj, key, value) ==
  IF key = ProtoKey THEN obj
  ELSE IF HasKey(obj, key)
  THEN [i \in 1..Len(obj) |-> IF obj[i].k = key THEN [k |-> key, v |-> value] ELSE obj[i]]
  ELSE Append(obj, [k |-> key, v |-> value])

\* The keys of a set of integer-like keys in ascending numeric order.
RECURSIVE AscendingKeys(_)
AscendingKeys(keys) ==
  IF keys = {} THEN <<>>
  ELSE LET least == CHOOSE a \in keys : \A b \in keys : NumericLeq(a, b)
       IN <<least>> \o AscendingKeys(keys \ {least})

\* The keys that are not integer-like, in creation order.
RECURSIVE StringKeys(_)
StringKeys(obj) ==
  IF obj = <<>> THEN <<>>
  ELSE IF IsArrayIndex(obj[1].k)
       THEN StringKeys(Tail(obj))
       ELSE <<obj[1].k>> \o StringKeys(Tail(obj))

\* Object.keys(obj): the integer-like keys first, in ascending numeric
\* order, then the other keys in creation order.
ObjectKeys(obj) ==
  AscendingKeys({obj[i].k : i \in {j \in 1..Len(obj) : IsArrayIndex(obj[j].k)}})
    \o StringKeys(obj)

\* JSON.stringify of an object: its properties in Object.keys order.
Json(obj) ==
  LET keys == ObjectKeys(obj)
  IN [i \in 1..Len(keys) |-> [k |-> keys[i], v |-> ObjGet(obj, keys[i])]]

\* The row object both parsers build for data row i under the header row:
\* row[header[j]] = the cell (i, j), for j in column order.
RECURSIVE RowObject(_, _, _)
RowObject(header, i, upTo) ==
  IF upTo = 0 THEN <<>>
  ELSE ObjSet(RowObject(header, i, upTo - 1), header[upTo], <<i, upTo>>)

\* The rows of a table: one object per data row, in source order.
RowObjects(header, n) == [i \in 1..n |-> RowObject(header, i, Len(header))]

\* ------------------------------------------------------- program constants

\* limits.fileSize: 10 * 1024 * 1024.
FileSizeLimit == 10485760

\* upload.single('file'): the multipart field name.
FieldName == "file"

allowedTypes ==
  <<"text/csv",
    "application/vnd.ms-excel",
    "application/vnd.openxmlformats-officedocument.spreadsheetml.sheet",
    "application/csv">>

DotCsv == <<".", "c", "s", "v">>
DotXls == <<".", "x", "l", "s">>
DotXlsx == <<".", "x", "l", "s", "x">>

allowedExtensions == <<DotCsv, DotXls, DotXlsx>>

\* null / undefined where a message or an error is expected.
Null == <<>>

MsgNoFile == <<"No file uploaded">>
MsgInvalidType == <<"Invalid file type. Only CSV and Excel files are allowed.">>
MsgTooLarge == <<"File too large. Maximum size allowed is 10MB.">>
MsgClientInvalidType == <<"Invalid file type. Please upload CSV or Excel files only.">>
MsgProcessed == <<"File processed successfully">>
MsgInternal == <<"Internal server error">>
PrefixProcessing == <<"Error processing file: ">>
PrefixExcel == <<"Error processing Excel file: ">>
PrefixUnsupported == <<"Unsupported file type: ">>

\* Messages of the errors the libraries and the file system raise.
ErrMulterLimit == <<"File too large">>
ErrUnlink == <<"EPERM: operation not permitted, unlink">>
ErrNoEnt == <<"ENOENT: no such file or directory">>
ErrCsvParser == <<"Row exceeds the maximum size">>
ErrWorkbook == <<"Unsupported file: corrupted workbook">>
MsgNetwork == <<"Network error. Please make sure the server is running.">>

\* ------------------------------------------------------------------ inputs

NameCsv == <<"a", ".", "c", "s", "v">>
NameXlsxUpper == <<"b", ".", "X", "L", "S", "X">>
NameTxt == <<"d", ".", "t", "x", "t">>
NameDotCsv == <<".", "c", "s", "v">>

FileNames == {NameCsv, NameXlsxUpper, NameTxt, NameDotCsv}
MimeTypes == {"text/csv", "text/plain"}
FileSizes == {FileSizeLimit, FileSizeLimit + 1}

Files == [present : {TRUE}, name : FileNames, type : MimeTypes, size : FileSizes]

\* What the parser finds in the bytes it reads (the bytes play no part
\* before that): bytes it fails on (bad), the header row and the number of
\* data rows of a delimited text, or the sheets of a workbook in the order
\* the file declares them, each with its name, header row and data rows.
NoContent ==
  [kind |-> "none", bad |-> FALSE, header |-> <<>>, rows |-> 0, sheets |-> <<>>]
BadContent(kind) == [NoContent EXCEPT !.kind = kind, !.bad = TRUE]
CsvTable(header, rows) ==
  [NoContent EXCEPT !.kind = "csv", !.header = header, !.rows = rows]
Sheet(name, header, rows) == [name |-> name, header |-> header, rows |-> rows]
Workbook(sheets) == [NoContent EXCEPT !.kind = "workbook", !.sheets = sheets]

KeyA == <<"a">>
KeyB == <<"b">>
Key1 == <<"1">>
Key2 == <<"2">>
KeyData == <<"D", "a", "t", "a">>
KeyNotes == <<"N", "o", "t", "e", "s">>

\* a,b with two data rows; a,b with none; a header with a numeric name; a
\* header with the name __proto__.
CsvContents ==
  {BadContent("csv"),
   CsvTable(<<KeyA, KeyB>>, 2),
   CsvTable(<<KeyA, KeyB>>, 0),
   CsvTable(<<KeyB, Key1>>, 1),
   CsvTable(<<KeyA, ProtoKey>>, 1)}

\* Two sheets of 2 rows and 1 row; two sheets named "2" and "1", in that
\* order, of 1 row and 2 rows; a sheet named __proto__ between two others.
Workbooks ==
  {BadContent("workbook"),
   Workbook(<<Sheet(KeyData, <<KeyA>>, 2), Sheet(KeyNotes, <<KeyA>>, 1)>>),
   Workbook(<<Sheet(Key2, <<KeyA>>, 1), Sheet(Key1, <<KeyA>>, 2)>>),
   Workbook(<<Sheet(KeyData, <<KeyA>>, 2), Sheet(ProtoKey, <<KeyA>>, 1),
              Sheet(KeyNotes, <<KeyA>>, 1)>>)}

\* A request without a file part: req.file is undefined.
NoFile == [present |-> FALSE, name |-> <<>>, type |-> "", size |-> 0]

\* --------------------------------------------------------------- validator

\* fileFilter with the two checks joined by "and".
fileFilterBoth(file) ==
  LET fileExtension == ToLowerCase(Extname(file.name)) IN
  IF Includes(allowedTypes, file.type) /\ Includes(allowedExtensions, fileExtension)
  THEN Null
  ELSE MsgInvalidType

\* fileFilter that passes every file on.
fileFilterAll(file) == Null

\* fileFilter of the multer configuration: Null when the file is passed on
\* (cb(null, true)), the error's message when it is refused.
fileFilter(file) ==
  LET fileExtension == ToLowerCase(Extname(file.name)) IN
  IF Includes(allowedTypes, file.type) \/ Includes(allowedExtensions, fileExtension)
  THEN Null
  ELSE MsgInvalidType

\* validateFile of the browser form: Null, or the message shown to the user.
validateFile(file) ==
  LET fileName == ToLowerCase(file.name)
      hasValidExtension ==
        \E i \in 1..Len(allowedExtensions) : EndsWith(fileName, allowedExtensions[i])
  IN IF ~Includes(allowedTypes, file.type) /\ ~hasValidExtension
     THEN MsgClientInvalidType
     ELSE IF file.size > FileSizeLimit
          THEN MsgTooLarge
          ELSE Null

\* storage.filename without the random part.
filenameNoRandom(now, rnd, file) ==
  [field |-> FieldName, ts |-> now, rnd |-> 0, ext |-> Extname(file.name)]

\* storage.filename: fieldname-Date.now()-random + path.extname(originalname),
\* inside the one upload directory.
filename(now, rnd, file) ==
  [field |-> FieldName, ts |-> now, rnd |-> rnd, ext |-> Extname(file.name)]

NoPath == [field |-> "", ts |-> 0, rnd |-> 0, ext |-> <<>>]

\* --------------------------------------------------------------- responses

\* fileData: undefined ("none"), the array processCSV resolves with ("rows")
\* or the object processExcel returns ("sheets": sheet name -> rows).
NoData == [kind |-> "none", rows |-> <<>>, sheets |-> <<>>]
RowsData(rows) == [kind |-> "rows", rows |-> rows, sheets |-> <<>>]
SheetsData(sheets) == [kind |-> "sheets", rows |-> <<>>, sheets |-> sheets]

\* processingInfo: fields holds the names of the properties that are set.
\* fileSize and processedAt are set and not followed further.
NoInfo ==
  [fields |-> {}, fileName |-> <<>>, fileType |-> <<>>, rowCount |-> 0,
   columns |-> <<>>, sheetCount |-> 0, sheetNames |-> <<>>, totalRows |-> 0]

\* JSON.stringify of fileData: the data of the response body, as the
\* client reads it.
JsonRows(rows) == [i \in 1..Len(rows) |-> Json(rows[i])]
JsonData(data) ==
  IF data.kind = "rows" THEN RowsData(JsonRows(data.rows))
  ELSE IF data.kind = "sheets"
  THEN LET keys == ObjectKeys(data.sheets)
       IN SheetsData([i \in 1..Len(keys) |->
                        [k |-> keys[i], v |-> JsonRows(ObjGet(data.sheets, keys[i]))]])
  ELSE NoData

NoResp ==
  [sent |-> FALSE, status |-> 0, success |-> FALSE, message |-> Null,
   hasData |-> FALSE, hasInfo |-> FALSE, data |-> NoData, info |-> NoInfo]

\* res.status(code).json({success: false, message}).
Failure(code, msg) ==
  [sent |-> TRUE, status |-> code, success |-> FALSE, message |-> msg,
   hasData |-> FALSE, hasInfo |-> FALSE, data |-> NoData, info |-> NoInfo]

\* res.json({success: true, message, data: fileData, processingInfo}):
\* JSON drops the data key when fileData is undefined. data is fileData as
\* the handler holds it; JsonData(data) is what the body carries.
Success(parse) ==
  [sent |-> TRUE, status |-> 200, success |-> TRUE, message |-> MsgProcessed,
   hasData |-> parse.hasData, hasInfo |-> TRUE,
   data |-> parse.data, info |-> parse.info]

\* error.message || 'Internal server error'.
MessageOr(msg) == IF msg = Null THEN MsgInternal ELSE msg

\* The error middleware without its LIMIT_FILE_SIZE case.
ErrorMiddlewarePlain(msg, isLimitFileSize) == Failure(500, MessageOr(msg))

\* The error handling middleware: only multer's LIMIT_FILE_SIZE is a 400.
ErrorMiddleware(msg, isLimitFileSize) ==
  IF isLimitFileSize
  THEN Failure(400, MsgTooLarge)
  ELSE Failure(500, MessageOr(msg))

\* The outer catch of the upload handler.
OuterCatch(msg) == Failure(500, MessageOr(msg))

\* ----------------------------------------------------------------- cleanup

\* fs.unlinkSync(p) on the directory d: err is Null, or the message of the
\* error it throws (the file is missing, or the file system refuses: fault).
UnlinkSync(d, p, fault) ==
  IF p \notin d THEN [disk |-> d, err |-> ErrNoEnt]
  ELSE IF fault THEN [disk |-> d, err |-> ErrUnlink]
  ELSE [disk |-> d \ {p}, err |-> Null]

\* if (fs.existsSync(filePath)) fs.unlinkSync(filePath).
ReleaseStep(d, p, fault) ==
  IF p \in d THEN UnlinkSync(d, p, fault) ELSE [disk |-> d, err |-> Null]

\* What one run of the handler's synchronous tail leaves behind.
Out(d, resp, releases, unlinkThrows) ==
  [disk |-> d, resp |-> resp, releases |-> releases, unlinkThrows |-> unlinkThrows]

\* catch (processingError): clean up, then answer 500 with the error's
\* message; an exception of the cleanup itself lands in the outer catch.
CatchProcessing(d, p, e, fault, releases, unlinkThrows) ==
  LET u == ReleaseStep(d, p, fault) IN
  IF u.err # Null
  THEN Out(u.disk, OuterCatch(u.err), releases + 1, unlinkThrows + 1)
  ELSE Out(u.disk, Failure(500, PrefixProcessing \o e), releases + 1, unlinkThrows)

\* The clean-up after a parse that returned, as each server does it.
CleanUp(build, d, p, fault) ==
  IF build = "server" THEN ReleaseStep(d, p, fault) ELSE UnlinkSync(d, p, fault)

\* From the end of parsing to the response. parse.err is the message of the
\* error the parsing stage threw, Null if it returned.
Complete(build, d, p, parse, fault1, fault2) ==
  IF parse.err # Null
  THEN CatchProcessing(d, p, parse.err, fault2, 0, 0)
  ELSE LET u == CleanUp(build, d, p, fault1) IN
       IF u.err # Null
       THEN CatchProcessing(u.disk, p, u.err, fault2, 1, 1)
       ELSE Out(u.disk, Success(parse), 1, 0)

\* ----------------------------------------------------------------- parsers

\* What the parsing stage hands on: the error it threw (err, with the
\* library's message in cause), or fileData; info is filled in by the
\* handler's branch.
Parsed(data) ==
  [err |-> Null, cause |-> Null, hasData |-> data.kind # "none",
   data |-> data, info |-> NoInfo]
Thrown(msg, cause) ==
  [err |-> msg, cause |-> cause, hasData |-> FALSE, data |-> NoData, info |-> NoInfo]

\* sheetNames.forEach(sheetName => result[sheetName] = sheet_to_json(...)),
\* over the first upTo sheets.
RECURSIVE SheetsResult(_, _)
SheetsResult(sheets, upTo) ==
  IF upTo = 0 THEN <<>>
  ELSE ObjSet(SheetsResult(sheets, upTo - 1), sheets[upTo].name,
              RowObjects(sheets[upTo].header, sheets[upTo].rows))

\* processExcel: XLSX.readFile throws when the file is missing or unreadable;
\* the catch rethrows with the library's message behind a prefix.
processExcel(d, p, content) ==
  IF p \notin d THEN Thrown(PrefixExcel \o ErrNoEnt, ErrNoEnt)
  ELSE IF content.bad THEN Thrown(PrefixExcel \o ErrWorkbook, ErrWorkbook)
  ELSE Parsed(SheetsData(SheetsResult(content.sheets, Len(content.sheets))))

\* The end of processCSV's stream: resolve(results), or reject(error) when
\* the csv parser emits 'error'.
processCSVEnd(content) ==
  IF content.bad
  THEN Thrown(ErrCsvParser, ErrCsvParser)
  ELSE Parsed(RowsData(RowObjects(content.header, content.rows)))

\* The branch of the handler for an extension that is neither .csv nor
\* .xlsx/.xls: server/index.js throws, the older copy has no else branch and
\* goes on with fileData undefined.
Unsupported(build, fileExtension) ==
  IF build = "server"
  THEN Thrown(PrefixUnsupported \o fileExtension, Null)
  ELSE Parsed(NoData)

\* ----------------------------------------------------------------- summary

\* s.substring(start): the characters of s from index start (0-based) on.
Substring(s, start) == SubSeq(s, start + 1, Len(s))

\* let processingInfo = {fileName, fileSize, fileType, processedAt}.
BaseInfo(file, fileExtension) ==
  [NoInfo EXCEPT !.fields = {"fileName", "fileSize", "fileType", "processedAt"},
                 !.fileName = file.name,
                 !.fileType = Substring(ToUpperCase(fileExtension), 1)]

\* processingInfo.rowCount and .columns of the .csv branch.
CsvSummary(info, fileData) ==
  [info EXCEPT !.fields = @ \cup {"rowCount", "columns"},
               !.rowCount = Len(fileData),
               !.columns = IF Len(fileData) > 0 THEN ObjectKeys(fileData[1]) ELSE <<>>]

\* totalRows += fileData[sheetName].length over the first upTo sheet names.
RECURSIVE TotalRows(_, _, _)
TotalRows(fileData, sheetNames, upTo) ==
  IF upTo = 0 THEN 0
  ELSE TotalRows(fileData, sheetNames, upTo - 1)
         + Len(ObjGet(fileData, sheetNames[upTo]))

\* processingInfo.sheetCount, .sheetNames and .totalRows of the workbook branch.
ExcelSummary(info, fileData) ==
  LET sheetNames == ObjectKeys(fileData)
  IN [info EXCEPT !.fields = @ \cup {"sheetCount", "sheetNames", "totalRows"},
                  !.sheetCount = Len(sheetNames),
                  !.sheetNames = sheetNames,
                  !.totalRows = TotalRows(fileData, sheetNames, Len(sheetNames))]

\* The handler's branch on fileExtension around the parse: the summary of
\* what was parsed; a parse that threw leaves the branch at once.
Summarize(file, parse) ==
  LET fileExtension == ToLowerCase(Extname(file.name))
      info == BaseInfo(file, fileExtension)
  IN IF parse.err # Null THEN parse
     ELSE IF fileExtension = DotCsv
     THEN [parse EXCEPT !.info = CsvSummary(info, parse.data.rows)]
     ELSE IF Includes(<<DotXlsx, DotXls>>, fileExtension)
     THEN [parse EXCEPT !.info = ExcelSummary(info, parse.data.sheets)]
     ELSE [parse EXCEPT !.info = info]

\* ------------------------------------------------------------------- state

VARIABLES
  build,   \* which of the two servers of the repository runs: "server" or "copy"
  alive,   \* the server process has not died of an uncaught exception
  clock,   \* Date.now()
  disk,    \* the paths that exist in the upload directory
  req,     \* per request: where it stands and what it has done
  isUploading,   \* the client's isUploading state
  uploadResult,  \* the client's uploadResult state
  dialogOpen,    \* the file dialog of the hidden input is open
  calls          \* the calls of uploadFile so far, in order: where each stands

serverVars == <<build, alive, clock, disk, req>>
clientVars == <<isUploading, uploadResult, dialogOpen, calls>>
vars == <<build, alive, clock, disk, req, isUploading, uploadResult, dialogOpen, calls>>

\* pc: "idle" (not yet sent), "storing" (multer is writing the file),
\* "opening" (processCSV created the read stream), "reading" (the stream is
\* open and piped into the csv parser), "responded".
\* wrote: bytes of this upload were written to the upload directory.
\* stored: multer handed the stored file to the handler (req.file is set).
\* releases: runs of the clean-up step; unlinkThrows: how many of them threw.
\* procErr: the error the parsing stage threw; cause: the library's message in it.
\* clientError: what validateFile of the browser form says of the same file.
\* content: what the parser found in the stored file.
\* now, rnd: the Date.now() and the random integer the temp name was made of.
InitReq ==
  [pc |-> "idle", file |-> NoFile, clientError |-> Null, path |-> NoPath,
   wrote |-> FALSE, stored |-> FALSE, releases |-> 0, unlinkThrows |-> 0,
   procErr |-> Null, cause |-> Null, limitHit |-> FALSE, resp |-> NoResp,
   content |-> NoContent, now |-> 0, rnd |-> 0]

\* useState(null): no result to show.
NoResult == [of |-> 0, success |-> FALSE, message |-> Null]

\* The component as mounted: useState(false), useState(null), no dialog.
InitClient ==
  /\ isUploading = FALSE
  /\ uploadResult = NoResult
  /\ dialogOpen = FALSE
  /\ calls = <<>>

Init ==
  /\ build = "server"
  /\ alive = TRUE
  /\ clock = 1
  /\ disk = {}
  /\ req = [r \in Reqs |-> InitReq]
  /\ InitClient

\* The handler's extension: path.extname(originalname).toLowerCase().
FileExtension(file) == ToLowerCase(Extname(file.name))

\* ----------------------------------------------------------------- actions

\* Time passes.
Tick ==
  /\ alive
  /\ clock < MaxClock
  /\ clock' = clock + 1
  /\ UNCHANGED <<build, alive, disk, req, clientVars>>

\* A request arrives (requests are numbered in their order of arrival) and
\* multer reads its headers. Without a file part the
\* handler answers 400 at once; a file the fileFilter refuses goes to the
\* error middleware; a file it passes gets its name and multer starts to
\* write it into the upload directory.
Receive(r) ==
  /\ alive
  /\ req[r].pc = "idle"
  /\ \A q \in Reqs : q < r => req[q].pc # "idle"
  /\ \E file \in Files \cup {NoFile}, rnd \in Rands :
       LET verdict == fileFilter(file)
           p == filename(clock, rnd, file)
       IN IF ~file.present
          THEN /\ req' = [req EXCEPT ![r] =
                    [@ EXCEPT !.pc = "responded", !.file = file,
                              !.resp = Failure(400, MsgNoFile)]]
               /\ disk' = disk
          ELSE IF verdict # Null
          THEN /\ req' = [req EXCEPT ![r] =
                    [@ EXCEPT !.pc = "responded", !.file = file,
                              !.clientError = validateFile(file),
                              !.resp = ErrorMiddleware(verdict, FALSE)]]
               /\ disk' = disk
          ELSE /\ req' = [req EXCEPT ![r] =
                    [@ EXCEPT !.pc = "storing", !.file = file,
                              !.clientError = validateFile(file),
                              !.path = p, !.wrote = TRUE,
                              !.now = clock, !.rnd = rnd]]
               /\ disk' = disk \cup {p}
  /\ UNCHANGED <<build, alive, clock, clientVars>>

\* The file grows past limits.fileSize while multer writes it: multer stops,
\* removes what it wrote (fs.unlink, whose failure it only collects) and
\* passes MulterError LIMIT_FILE_SIZE to the error middleware.
StoreLimit(r) ==
  /\ alive
  /\ req[r].pc = "storing"
  /\ req[r].file.size > FileSizeLimit
  /\ \E fault \in BOOLEAN :
       LET u == UnlinkSync(disk, req[r].path, fault) IN
       /\ disk' = u.disk
       /\ req' = [req EXCEPT ![r] =
            [@ EXCEPT !.pc = "responded", !.limitHit = TRUE,
                      !.resp = ErrorMiddleware(ErrMulterLimit, TRUE)]]
  /\ UNCHANGED <<build, alive, clock, clientVars>>

\* The file is stored and the handler starts. A .csv file: processCSV
\* creates the read stream and the handler awaits its promise.
HandleCsv(r) ==
  /\ alive
  /\ req[r].pc = "storing"
  /\ req[r].file.size <= FileSizeLimit
  /\ FileExtension(req[r].file) = DotCsv
  /\ req' = [req EXCEPT ![r] = [@ EXCEPT !.pc = "opening", !.stored = TRUE]]
  /\ UNCHANGED <<build, alive, clock, disk, clientVars>>

\* The file is stored and the handler starts. Any other extension: the
\* handler runs to its response without giving up control (processExcel is
\* synchronous, and so is the refusal of an unsupported extension).
HandleSync(r) ==
  /\ alive
  /\ req[r].pc = "storing"
  /\ req[r].file.size <= FileSizeLimit
  /\ FileExtension(req[r].file) # DotCsv
  \* (\E x \in {e} names the value of e.)
  /\ \E content \in Workbooks, ext \in {FileExtension(req[r].file)} :
     \E isExcel \in {Includes(<<DotXlsx, DotXls>>, ext)} :
     \E parse \in {Summarize(req[r].file,
                      IF isExcel
                      THEN processExcel(disk, req[r].path, content)
                      ELSE Unsupported(build, ext))} :
     \E fault1 \in BOOLEAN, fault2 \in BOOLEAN :
     \E out \in {Complete(build, disk, req[r].path, parse, fault1, fault2)} :
               /\ disk' = out.disk
               /\ req' = [req EXCEPT ![r] =
                    [@ EXCEPT !.pc = "responded", !.stored = TRUE,
                              !.content = IF isExcel /\ req[r].path \in disk
                                          THEN content ELSE NoContent,
                              !.procErr = parse.err, !.cause = parse.cause,
                              !.releases = out.releases,
                              !.unlinkThrows = out.unlinkThrows,
                              !.resp = out.resp]]
  /\ UNCHANGED <<build, alive, clock, clientVars>>

\* fs.createReadStream opens the file. processCSV listens for 'error' on the
\* csv parser only, and pipe() forwards no errors: an error of the read
\* stream (the file is gone, or the open fails) has no listener, is thrown
\* as an uncaught exception and ends the process.
CsvOpen(r) ==
  /\ alive
  /\ req[r].pc = "opening"
  /\ \E fault \in BOOLEAN :
       IF req[r].path \notin disk \/ fault
       THEN /\ alive' = FALSE
            /\ req' = req
       ELSE /\ alive' = alive
            /\ req' = [req EXCEPT ![r] = [@ EXCEPT !.pc = "reading"]]
  /\ UNCHANGED <<build, clock, disk, clientVars>>

\* The read stream fails while the file is read: the same uncaught 'error'.
CsvReadError(r) ==
  /\ alive
  /\ req[r].pc = "reading"
  /\ alive' = FALSE
  /\ UNCHANGED <<build, clock, disk, req, clientVars>>

\* The csv parser ends ('end': resolve) or fails ('error': reject), and the
\* handler resumes after its await and runs to its response.
CsvEnd(r) ==
  /\ alive
  /\ req[r].pc = "reading"
  /\ \E content \in CsvContents :
     \E parse \in {Summarize(req[r].file, processCSVEnd(content))} :
     \E fault1 \in BOOLEAN, fault2 \in BOOLEAN :
     \E out \in {Complete(build, disk, req[r].path, parse, fault1, fault2)} :
               /\ disk' = out.disk
               /\ req' = [req EXCEPT ![r] =
                    [@ EXCEPT !.pc = "responded", !.content = content,
                              !.procErr = parse.err, !.cause = parse.cause,
                              !.releases = out.releases,
                              !.unlinkThrows = out.unlinkThrows,
                              !.resp = out.resp]]
  /\ UNCHANGED <<build, alive, clock, clientVars>>

Next ==
  \/ Tick
  \/ \E r \in Reqs : Receive(r)
  \/ \E r \in Reqs : StoreLimit(r)
  \/ \E r \in Reqs : HandleCsv(r)
  \/ \E r \in Reqs : HandleSync(r)
  \/ \E r \in Reqs : CsvOpen(r)
  \/ \E r \in Reqs : CsvReadError(r)
  \/ \E r \in Reqs : CsvEnd(r)

Spec == Init /\ [][Next]_vars

\* The older copy of the server, at the end of src/components/FileUploader.tsx.
InitCopy ==
  /\ build = "copy"
  /\ alive = TRUE
  /\ clock = 1
  /\ disk = {}
  /\ req = [r \in Reqs |-> InitReq]
  /\ InitClient

SpecCopy == InitCopy /\ [][Next]_vars

\* ------------------------------------------------------------------ client

\* The component FileUploader of the browser form. A call of uploadFile is
\* "invalid" (validateFile refused the file, nothing was sent), "pending"
\* (the request is sent, fetch has not settled) or "settled". A result
\* carries in "of" the number of the call that set it.

Result(call, success, message) ==
  [of |-> call, success |-> success, message |-> message]

\* What the server may answer to a request.
Answers ==
  {[success |-> TRUE, message |-> MsgProcessed],
   [success |-> FALSE, message |-> MsgInternal]}

\* uploadFile(file) up to its first await: a file that validateFile refuses
\* sets the result and returns; any other sets isUploading, clears the
\* result and sends the request.
uploadFile(file) ==
  /\ Len(calls) < MaxCalls
  /\ \E validationError \in {validateFile(file)} :
       IF validationError # Null
       THEN /\ uploadResult' = Result(Len(calls) + 1, FALSE, validationError)
            /\ calls' = Append(calls, "invalid")
            /\ isUploading' = isUploading
       ELSE /\ isUploading' = TRUE
            /\ uploadResult' = NoResult
            /\ calls' = Append(calls, "pending")

\* onClick of the upload area: fileInputRef.current.click() opens the file
\* dialog. While isUploading the area has pointer-events-none and gets no
\* click.
openFileDialog ==
  /\ ~isUploading
  /\ ~dialogOpen
  /\ dialogOpen' = TRUE
  /\ UNCHANGED <<serverVars, isUploading, uploadResult, calls>>

\* The user closes the dialog without a file: no change event.
CancelDialog ==
  /\ dialogOpen
  /\ dialogOpen' = FALSE
  /\ UNCHANGED <<serverVars, isUploading, uploadResult, calls>>

\* onChange of the hidden input: the user confirms a file in the dialog.
\* The dialog is not part of the upload area: it stays open and usable
\* whatever isUploading has become since it was opened.
handleFileSelect ==
  /\ dialogOpen
  /\ dialogOpen' = FALSE
  /\ \E file \in Files : uploadFile(file)
  /\ UNCHANGED serverVars

\* onDrop of the upload area: while isUploading the area has
\* pointer-events-none and gets no drop.
handleDrop ==
  /\ ~isUploading
  /\ \E file \in Files : uploadFile(file)
  /\ UNCHANGED <<serverVars, dialogOpen>>

\* fetch and response.json() resolve for the call c: setUploadResult(result),
\* then finally setIsUploading(false).
FetchResolve(c) ==
  /\ calls[c] = "pending"
  /\ \E answer \in Answers :
       uploadResult' = Result(c, answer.success, answer.message)
  /\ isUploading' = FALSE
  /\ calls' = [calls EXCEPT ![c] = "settled"]
  /\ UNCHANGED <<serverVars, dialogOpen>>

\* fetch or response.json() rejects for the call c: the catch sets the
\* network error, then finally setIsUploading(false).
FetchReject(c) ==
  /\ calls[c] = "pending"
  /\ uploadResult' = Result(c, FALSE, MsgNetwork)
  /\ isUploading' = FALSE
  /\ calls' = [calls EXCEPT ![c] = "settled"]
  /\ UNCHANGED <<serverVars, dialogOpen>>

NextClient ==
  \/ openFileDialog
  \/ CancelDialog
  \/ handleFileSelect
  \/ handleDrop
  \/ \E c \in 1..Len(calls) : FetchResolve(c)
  \/ \E c \in 1..Len(calls) : FetchReject(c)

SpecClient == Init /\ [][NextClient]_vars

\* ------------------------------------------------------------------ claims

Responded(r) == req[r].pc = "responded"

\* The request r is answered in this step.
Responds(r) == req[r].pc # "responded" /\ req'[r].pc = "responded"

\* The type conditions of the claims, in their own words.
ExtensionAllowed(file) == ToLowerCase(Extname(file.name)) \in {DotCsv, DotXls, DotXlsx}
MimeAllowed(file) ==
  file.type \in {"text/csv", "application/csv", "application/vnd.ms-excel",
                 "application/vnd.openxmlformats-officedocument.spreadsheetml.sheet"}
TypeInvalid(file) == ~ExtensionAllowed(file) /\ ~MimeAllowed(file)
Oversize(file) == file.size > 10485760

\* C1: whenever a request whose file reached Stored is answered, its temp
\* file no longer exists on disk at that moment.
C1_TempFileGoneAtResponse ==
  [][\A r \in Reqs :
       (Responds(r) /\ req'[r].stored) => req'[r].path \notin disk']_vars

\* C2: every answered request whose file was stored has run the release step
\* exactly once.
C2_ReleaseExactlyOnce ==
  \A r \in Reqs : (Responded(r) /\ req[r].stored) => req[r].releases = 1

\* C3: the status is 200 exactly on success, 400 for a missing file, an
\* oversize file or an invalid type, and 500 for a parse or internal failure.
C3_StatusCodes ==
  \A r \in Reqs :
    Responded(r) =>
      /\ req[r].resp.status \in {200, 400, 500}
      /\ (req[r].resp.status = 200) <=> req[r].resp.success
      /\ ~req[r].file.present => req[r].resp.status = 400
      /\ (req[r].file.present /\ Oversize(req[r].file)) => req[r].resp.status = 400
      /\ (req[r].file.present /\ TypeInvalid(req[r].file)) => req[r].resp.status = 400
      /\ req[r].procErr # Null => req[r].resp.status = 500

\* C4 (as claimed): an upload the validator rejects, for its type or for its
\* size, never has bytes written to the upload directory.
C4_RejectedNeverWritten ==
  \A r \in Reqs :
    (req[r].file.present /\ (TypeInvalid(req[r].file) \/ Oversize(req[r].file)))
      => ~req[r].wrote

\* C4 (amended): an upload rejected for its type is answered without any byte
\* written and without a temp file name; an upload rejected for its size has
\* passed the type check and was being written when the limit was hit.
C4_TypeRejectionWritesNothing ==
  \A r \in Reqs :
    /\ (req[r].file.present /\ TypeInvalid(req[r].file))
         => (Responded(r) /\ ~req[r].wrote /\ ~req[r].stored /\ req[r].path = NoPath)
    /\ req[r].limitHit
         => (req[r].wrote /\ ~req[r].stored /\ ~TypeInvalid(req[r].file))

\* One upload was rejected for its type with nothing written, another for its
\* size after multer had started to write it.
C4_Witness ==
  /\ \E r \in Reqs :
       Responded(r) /\ req[r].file.present /\ TypeInvalid(req[r].file) /\ ~req[r].wrote
  /\ \E r \in Reqs : Responded(r) /\ req[r].limitHit /\ req[r].wrote

\* C5: a file of at most 10 MiB is accepted (multer starts to store it) if
\* and only if its lower-cased extension is allowed or its MIME type is; a
\* refused one is answered with the type-specific message.
C5_ValidatorAcceptance ==
  \A r \in Reqs :
    (req[r].file.present /\ ~Oversize(req[r].file)) =>
      /\ req[r].wrote <=> (ExtensionAllowed(req[r].file) \/ MimeAllowed(req[r].file))
      /\ ~req[r].wrote => (Responded(r) /\ req[r].resp.message = MsgInvalidType)

\* Within the size limit: one file was stored that only its MIME type allows,
\* and one that neither allows was refused with the type-specific message.
C5_Witness ==
  /\ \E r \in Reqs :
       /\ req[r].file.present /\ ~Oversize(req[r].file) /\ req[r].stored
       /\ ~ExtensionAllowed(req[r].file) /\ MimeAllowed(req[r].file)
  /\ \E r \in Reqs :
       /\ req[r].file.present /\ ~Oversize(req[r].file) /\ TypeInvalid(req[r].file)
       /\ Responded(r) /\ ~req[r].wrote /\ req[r].resp.message = MsgInvalidType

\* C6 (as claimed): every file over 10,485,760 bytes is rejected with the
\* size-specific message, by the server and by the browser form, whatever
\* its type.
C6_OversizeGetsSizeMessage ==
  \A r \in Reqs :
    (Responded(r) /\ req[r].file.present /\ Oversize(req[r].file)) =>
      /\ req[r].resp.message = MsgTooLarge
      /\ req[r].clientError = MsgTooLarge

\* The browser form's type check: the lower-cased name ends with an allowed
\* extension, or the MIME type is allowed.
ClientTypeInvalid(file) ==
  /\ ~MimeAllowed(file)
  /\ \A e \in {DotCsv, DotXls, DotXlsx} : ~EndsWith(ToLowerCase(file.name), e)

\* C6 (amended): every file over 10,485,760 bytes is rejected by the server
\* and by the browser form; each checks the type first, so the size-specific
\* message is given exactly when the file passes that validator's type check
\* and the type-specific message otherwise; the two messages differ.
C6_OversizeRejectedTypeFirst ==
  \A r \in Reqs :
    (Responded(r) /\ req[r].file.present /\ Oversize(req[r].file)) =>
      /\ ~req[r].resp.success /\ ~req[r].stored
      /\ req[r].resp.message =
           (IF TypeInvalid(req[r].file) THEN MsgInvalidType ELSE MsgTooLarge)
      /\ ~TypeInvalid(req[r].file) => req[r].resp.status = 400
      /\ req[r].clientError =
           (IF ClientTypeInvalid(req[r].file) THEN MsgClientInvalidType ELSE MsgTooLarge)
      /\ MsgTooLarge # MsgInvalidType /\ MsgTooLarge # MsgClientInvalidType

\* An oversize file of an allowed type was answered with the size message,
\* and an oversize file of an invalid type with the type message.
C6_Witness ==
  /\ \E r \in Reqs :
       /\ Responded(r) /\ req[r].file.present /\ Oversize(req[r].file)
       /\ ~TypeInvalid(req[r].file) /\ req[r].resp.message = MsgTooLarge
  /\ \E r \in Reqs :
       /\ Responded(r) /\ req[r].file.present /\ Oversize(req[r].file)
       /\ TypeInvalid(req[r].file) /\ req[r].resp.message = MsgInvalidType

\* The parser itself failed on the stored file of r (csv parser or workbook
\* reader), with the library's message in cause.
ParseFailed(r) == req[r].procErr # Null /\ req[r].cause # Null

\* C7: a failed parse is answered 500 {success: false, message} with the
\* parser's message inside the message, and no failure response carries
\* data or processingInfo.
C7_ParseFailureResponse ==
  \A r \in Reqs :
    Responded(r) =>
      /\ ParseFailed(r) =>
           /\ req[r].resp.status = 500
           /\ ~req[r].resp.success
           /\ StrIncludes(req[r].resp.message, req[r].cause)
      /\ ~req[r].resp.success => (~req[r].resp.hasData /\ ~req[r].resp.hasInfo)

\* C8: when the deletion of the temp file throws during the clean-up after
\* a failed parse, the response still reports the processing error.
C8_CleanupFailureKeepsOriginalError ==
  \A r \in Reqs :
    (Responded(r) /\ req[r].procErr # Null /\ req[r].unlinkThrows > 0) =>
      /\ req[r].resp.status = 500
      /\ req[r].resp.message = PrefixProcessing \o req[r].procErr

\* C9: a stored file whose lower-cased extension is not .csv, .xls or .xlsx
\* (the validator let it in for its MIME type) is never answered with
\* success: the answer is 500 {success: false, message}.
C9_MimeOnlyNeverSucceeds ==
  \A r \in Reqs :
    (Responded(r) /\ req[r].stored /\ ~ExtensionAllowed(req[r].file)) =>
      /\ MimeAllowed(req[r].file)
      /\ ~req[r].resp.success
      /\ req[r].resp.status = 500

\* C10: a request that reached Stored is answered; the server never dies
\* with such a request still unanswered (as when the read stream of
\* processCSV errors).
C10_StoredIsAnswered ==
  \A r \in Reqs : (req[r].stored /\ ~Responded(r)) => alive

\* ------------------------------------------------- claims on the summary

\* The property names of a serialised object, in the order the body lists them.
Names(props) == [i \in 1..Len(props) |-> props[i].k]

\* The lengths of the first upTo property values, summed.
RECURSIVE SumOfLengths(_, _)
SumOfLengths(props, upTo) ==
  IF upTo = 0 THEN 0 ELSE SumOfLengths(props, upTo - 1) + Len(props[upTo].v)

\* The summary of a response is the delimited one, complete and computed
\* from the rows of the same body.
DelimitedSummary(info, body) ==
  /\ body.kind = "rows"
  /\ {"rowCount", "columns"} \subseteq info.fields
  /\ info.rowCount = Len(body.rows)
  /\ info.columns = IF Len(body.rows) > 0 THEN Names(body.rows[1]) ELSE <<>>

\* The summary of a response is the workbook one, complete and computed
\* from the sheets of the same body.
WorkbookSummary(info, body) ==
  /\ body.kind = "sheets"
  /\ {"sheetCount", "sheetNames", "totalRows"} \subseteq info.fields
  /\ info.sheetCount = Len(body.sheets)
  /\ info.sheetNames = Names(body.sheets)
  /\ info.totalRows = SumOfLengths(body.sheets, Len(body.sheets))

\* C11: every success response carries data and a summary that is complete
\* and consistent with that data: rowCount and columns (delimited case) or
\* sheetCount, sheetNames and totalRows (workbook case).
C11_SuccessSummaryComplete ==
  \A r \in Reqs :
    (Responded(r) /\ req[r].resp.success) =>
      /\ req[r].resp.hasData
      /\ req[r].resp.hasInfo
      /\ \/ DelimitedSummary(req[r].resp.info, JsonData(req[r].resp.data))
         \/ WorkbookSummary(req[r].resp.info, JsonData(req[r].resp.data))

\* A delimited text was parsed into rows and answered with success.
CsvAnswered(r) ==
  /\ Responded(r) /\ req[r].resp.success
  /\ req[r].content.kind = "csv" /\ ~req[r].content.bad

\* C12: for a delimited text that parses to the rows R, rowCount is the
\* length of R, columns is the keys of R's first row in source column order
\* (present and empty when R is empty), and data is R in source order.
C12_DelimitedSummary ==
  \A r \in Reqs :
    CsvAnswered(r) =>
      LET header == req[r].content.header
          n == req[r].content.rows
          info == req[r].resp.info
          body == JsonData(req[r].resp.data)
      IN /\ {"rowCount", "columns"} \subseteq info.fields
         /\ info.rowCount = n
         /\ info.columns = IF n > 0 THEN header ELSE <<>>
         /\ body.kind = "rows" /\ Len(body.rows) = n
         /\ \A i \in 1..n : \A j \in 1..Len(header) :
              /\ HasKey(body.rows[i], header[j])
              /\ ObjGet(body.rows[i], header[j]) = <<i, j>>

\* A workbook was parsed into sheets and answered with success.
WorkbookAnswered(r) ==
  /\ Responded(r) /\ req[r].resp.success
  /\ req[r].content.kind = "workbook" /\ ~req[r].content.bad

\* The data rows of the first upTo sheets of a workbook, summed.
RECURSIVE RowsOfSheets(_, _)
RowsOfSheets(sheets, upTo) ==
  IF upTo = 0 THEN 0 ELSE RowsOfSheets(sheets, upTo - 1) + sheets[upTo].rows

\* C13: for a workbook, sheetCount is the number of its sheets, totalRows
\* the sum of their row counts, and sheetNames their names in the order the
\* file declares them, whatever the names are.
C13_WorkbookSummary ==
  \A r \in Reqs :
    WorkbookAnswered(r) =>
      LET sheets == req[r].content.sheets
          info == req[r].resp.info
      IN /\ info.sheetCount = Len(sheets)
         /\ info.totalRows = RowsOfSheets(sheets, Len(sheets))
         /\ info.sheetNames = [i \in 1..Len(sheets) |-> sheets[i].name]

\* -------------------------------------------------- claims on temp names

\* The request has a temp file name and is not answered yet.
InFlight(r) == req[r].pc \in {"storing", "opening", "reading"}

\* Two requests drew the same millisecond and the same random integer for
\* files of the same extension.
SameDraw(a, b) ==
  /\ a.now = b.now
  /\ a.rnd = b.rnd
  /\ Extname(a.file.name) = Extname(b.file.name)

\* C14 (as claimed): two requests in flight at the same time with distinct
\* valid files never have equal temp file names.
C14_NamesNeverEqual ==
  \A r \in Reqs : \A q \in Reqs \ {r} :
    (InFlight(r) /\ InFlight(q) /\ req[r].file # req[q].file) =>
      req[r].path # req[q].path

\* C14 (amended): the temp file names of two requests are equal exactly
\* when both drew the same millisecond and the same random integer for the
\* same extension; and a request's temp file leaves the disk in a step of
\* another request only if that request has the same draw.
C14_NamesEqualOnlyOnSameDraw ==
  [][ /\ \A r \in Reqs : \A q \in Reqs \ {r} :
           (req'[r].wrote /\ req'[q].wrote) =>
             ((req'[r].path = req'[q].path) <=> SameDraw(req'[r], req'[q]))
      /\ \A r \in Reqs :
           (/\ req[r].wrote /\ req'[r] = req[r]
            /\ req[r].path \in disk /\ req[r].path \notin disk') =>
             \E q \in Reqs \ {r} :
               req[q].wrote /\ req'[q] # req[q] /\ SameDraw(req[r], req[q]) ]_vars

\* Two requests are in flight with names made in the same millisecond for
\* the same extension that differ in the random integer alone, both files
\* on disk.
C14_Witness ==
  \E r \in Reqs : \E q \in Reqs \ {r} :
    /\ InFlight(r) /\ InFlight(q)
    /\ req[r].now = req[q].now
    /\ Extname(req[r].file.name) = Extname(req[q].file.name)
    /\ req[r].rnd # req[q].rnd
    /\ req[r].path # req[q].path
    /\ {req[r].path, req[q].path} \subseteq disk

\* ------------------------------------------- claims on the two validators

\* C15: validateFile of the client returns null for a file if and only if
\* the server accepts it: fileFilter passes it and its size is within the
\* 10 MiB limit.
C15_ClientServerAgree ==
  \A r \in Reqs :
    (req[r].pc # "idle" /\ req[r].file.present) =>
      ((req[r].clientError = Null)
         <=> (req[r].wrote /\ req[r].file.size <= 10485760))

\* ---------------------------------------------------- claims on the client

Pending(c) == calls[c] = "pending"

\* The last call of uploadFile that sent a request; 0 if none did.
LastUpload ==
  IF \A c \in 1..Len(calls) : calls[c] = "invalid" THEN 0
  ELSE CHOOSE c \in 1..Len(calls) :
         /\ calls[c] # "invalid"
         /\ \A d \in (c + 1)..Len(calls) : calls[d] = "invalid"

\* C16: isUploading is true whenever a request of uploadFile is sent and not
\* settled; once every call has settled isUploading is false and
\* uploadResult is non-null and is the result of the most recently started
\* upload (of the last call, or of the last call that sent a request).
C16_UploadingTracksPending ==
  /\ (\E c \in 1..Len(calls) : Pending(c)) => isUploading
  /\ (calls # <<>> /\ \A c \in 1..Len(calls) : ~Pending(c)) =>
       /\ ~isUploading
       /\ uploadResult # NoResult
       /\ uploadResult.of \in {Len(calls), LastUpload}

====
